---- MODULE Spec2Model ----
(***************************************************************************)
(* Model of the result post-processing scripts of EdgeCloudSim.            *)
(*                                                                         *)
(* Four scripts are modelled, each as a specification of its own over the  *)
(* variables that carry the names the script uses: plot_generic_line       *)
(* (Spec), data_convertor.py (SpecConvertor), plotApDelay.py (SpecApDelay) *)
(* and plot_location_heatmap (SpecLocation); SpecSplit is the reading      *)
(* loop of data_convertor.py alone, over every training ratio.             *)
(*                                                                         *)
(* plot_generic_line (scripts/tutorial3/python/plotGenericLine.py) reads   *)
(* one scalar per (iteration, scenario, device-count) log file into a      *)
(* three-axis numpy array, averages the iteration axis ignoring NaN,       *)
(* divides by a caller-supplied divisor, computes a 95% Student-t          *)
(* confidence interval per (scenario, device-count) cell and hands one     *)
(* series per scenario to the plotting sink.                               *)
(*                                                                         *)
(* Numbers: a numpy float is modelled exactly, as a rational or NaN        *)
(* (record [nan, n, d]).  A value that involves a square root (a standard  *)
(* deviation, a confidence bound) is modelled exactly as r + c*sqrt(q)     *)
(* with r, c, q rational (record [r, c, q]).  A numpy array is a record    *)
(* [shape, data] with data in row-major order.                             *)
(***************************************************************************)
EXTENDS Integers, Sequences, FiniteSets, TLC

(***************************************************************************)
(* Bounds of the model.                                                    *)
(***************************************************************************)
MaxIter == 4
MaxScen == 2
MaxDev == 2
MaxCells == 4
MaxPctCells == 3

\* raw scalars found in a log file, and (success, failure) totals rows
RawValues == {0, 1, 5}
\* raw scalars of the files read together with their totals row
PctValues == {1, 5}
RawTotals == {<<0, 0>>, <<15, 5>>, <<5, 5>>}
\* divisors the callers pass: the default 1, and 60 (plotTimeComplexity.py)
Divisors == {1, 60}
PctModes == {"", "percentage_of_all", "percentage_of_failed"}

(***************************************************************************)
(* Exact arithmetic on numpy floats.                                       *)
(***************************************************************************)
Abs(x) == IF x < 0 THEN -x ELSE x

RECURSIVE GCD(_, _)
GCD(a, b) == IF b = 0 THEN a ELSE GCD(b, a % b)

NaN == [nan |-> TRUE, n |-> 0, d |-> 1]

\* the float n/d in lowest terms; 0/0 (the only division by zero the
\* program performs: an empty mean, a one-sample ddof=1 variance) is NaN
Rat(n, d) ==
    IF d = 0 THEN NaN
    ELSE LET g == GCD(Abs(n), Abs(d))
             sg == IF d < 0 THEN -1 ELSE 1
         IN  [nan |-> FALSE, n |-> sg * (n \div g), d |-> sg * (d \div g)]

F(k) == Rat(k, 1)

IsNaN(x) == x.nan

\* sums over the least common denominator and products with cross-cancelling,
\* so that no intermediate product is larger than the result needs
FAdd(x, y) ==
    IF x.nan \/ y.nan THEN NaN
    ELSE LET g == GCD(x.d, y.d)
         IN  Rat(x.n * (y.d \div g) + y.n * (x.d \div g), (x.d \div g) * y.d)
FNeg(x) == IF x.nan THEN NaN ELSE [nan |-> FALSE, n |-> -x.n, d |-> x.d]
FSub(x, y) == FAdd(x, FNeg(y))
FMul(x, y) ==
    IF x.nan \/ y.nan THEN NaN
    ELSE LET g1 == GCD(Abs(x.n), y.d)
             g2 == GCD(Abs(y.n), x.d)
         IN  Rat((x.n \div g1) * (y.n \div g2), (x.d \div g2) * (y.d \div g1))
FDiv(x, y) ==
    IF x.nan \/ y.nan \/ y.n = 0 THEN NaN
    ELSE FMul(x, [nan |-> FALSE, n |-> (IF y.n < 0 THEN -y.d ELSE y.d), d |-> Abs(y.n)])
\* comparisons with NaN are false, as in IEEE 754
FLess(x, y) == ~x.nan /\ ~y.nan /\ x.n * y.d < y.n * x.d

RECURSIVE FSum(_)
FSum(xs) == IF xs = <<>> THEN F(0) ELSE FAdd(Head(xs), FSum(Tail(xs)))

\* r + c * sqrt(q); NaN in any part makes the whole value NaN
SurdNaN == [r |-> NaN, c |-> F(0), q |-> F(0)]
Surd(r, c, q) ==
    IF r.nan \/ c.nan \/ q.nan THEN SurdNaN
    ELSE IF q.n = 0 \/ c.n = 0 THEN [r |-> r, c |-> F(0), q |-> F(0)]
    ELSE [r |-> r, c |-> c, q |-> q]
SurdIsNaN(y) == y.r.nan
SurdZero == Surd(F(0), F(0), F(0))
\* x - (r + c*sqrt(q)) and (r + c*sqrt(q)) - x for a float x
FloatMinusSurd(x, y) == Surd(FSub(x, y.r), FSub(F(0), y.c), y.q)
SurdMinusFloat(y, x) == Surd(FSub(y.r, x), y.c, y.q)
\* a * y + loc for floats a, loc
SurdAffine(a, y, loc) == Surd(FAdd(FMul(a, y.r), loc), FMul(a, y.c), y.q)
\* np.sqrt(q) for a float q >= 0
Sqrt(q) == Surd(F(0), F(1), q)
\* y / np.sqrt(k) for a pure root y = c*sqrt(q) and a positive integer k
SurdDivSqrt(y, k) == Surd(y.r, y.c, FDiv(y.q, F(k)))
\* y > 0 for a pure root y = c*sqrt(q); false for NaN
SurdPositive(y) == ~SurdIsNaN(y) /\ y.r.n = 0 /\ y.c.n > 0 /\ y.q.n > 0

(***************************************************************************)
(* numpy arrays: [shape, data], data in row-major (C) order.               *)
(***************************************************************************)
RECURSIVE Prod(_)
Prod(sh) == IF sh = <<>> THEN 1 ELSE Head(sh) * Prod(Tail(sh))

\* np.zeros(shape)
Zeros(sh) == [shape |-> sh, data |-> [k \in 1..Prod(sh) |-> F(0)]]

\* a name that is not bound yet
Unbound == [shape |-> <<0>>, data |-> <<>>]

Ndim(a) == Len(a.shape)

\* flat position (1-based) of a[s0, i, j] in a three-axis array, 0-based indices
Flat3(a, s0, i, j) == (s0 * a.shape[2] + i) * a.shape[3] + j + 1
\* flat position (1-based) of a[i, j] in a two-axis array
Flat2(a, i, j) == i * a.shape[2] + j + 1

\* np.squeeze: every axis of length one is removed; the data is shared
SqueezeShape(sh) == SelectSeq(sh, LAMBDA n : n # 1)
Squeeze(a) == [shape |-> SqueezeShape(a.shape), data |-> a.data]

\* a / k, elementwise
ArrayDiv(a, k) == [shape |-> a.shape, data |-> [p \in DOMAIN a.data |-> FDiv(a.data[p], F(k))]]

\* a[:, i, j]: the iteration axis of one (scenario, device-count) position
IterSlice(a, i, j) == [s0 \in 1..a.shape[1] |-> a.data[Flat3(a, s0 - 1, i, j)]]

\* x[~np.isnan(x)]
DropNaN(xs) == SelectSeq(xs, LAMBDA x : ~IsNaN(x))

\* fault model: np.mean with NaN read as 0: missing entries stay in the denominator
MeanNaNAsZero(xs) == FDiv(FSum(DropNaN(xs)), F(Len(xs)))

\* fault model: an empty sample averages to 0 instead of NaN
NanMeanEmptyZero(xs) ==
    LET ys == DropNaN(xs) IN IF ys = <<>> THEN F(0) ELSE FDiv(FSum(ys), F(Len(ys)))

\* np.nanmean of a one-axis sample: NaN when no entry is left (0/0)
NanMean1(xs) == LET ys == DropNaN(xs) IN FDiv(FSum(ys), F(Len(ys)))

\* np.nanmean(a, axis=0) of a three-axis array
NanMeanAxis0(a) ==
    LET sh == <<a.shape[2], a.shape[3]>>
    IN  [shape |-> sh,
         data |-> [p \in 1..Prod(sh) |->
                     NanMean1(IterSlice(a, (p - 1) \div a.shape[3], (p - 1) % a.shape[3]))]]

(***************************************************************************)
(* Statistics of one cell.                                                 *)
(***************************************************************************)
\* np.std(xs, ddof): sqrt(sum((x - mean)^2) / (len(xs) - ddof))
SumSqDev(xs) ==
    LET m == FDiv(FSum(xs), F(Len(xs)))
    IN  FSum([k \in DOMAIN xs |-> FMul(FSub(xs[k], m), FSub(xs[k], m))])
NpStd(xs, ddof) == Sqrt(FDiv(SumSqDev(xs), F(Len(xs) - ddof)))

\* scipy.stats.t.ppf(0.975, df), three decimals
TPpf975(df) ==
    CASE df = 1 -> Rat(12706, 1000)
      [] df = 2 -> Rat(4303, 1000)
      [] df = 3 -> Rat(3182, 1000)
      [] df = 4 -> Rat(2776, 1000)
      [] df = 5 -> Rat(2571, 1000)
      [] df = 6 -> Rat(2447, 1000)
      [] df = 7 -> Rat(2365, 1000)
      [] df = 8 -> Rat(2306, 1000)
      [] OTHER  -> Rat(2262, 1000)

\* scipy.stats.t.interval(0.95, df, loc, scale) = (ppf(0.025), ppf(0.975)),
\* each ppf(q) * scale + loc.  rv_continuous.ppf returns its bad value, NaN,
\* wherever scale > 0 does not hold, so a zero scale gives (NaN, NaN).
TInterval(df, loc, scale) ==
    IF SurdPositive(scale) /\ ~loc.nan
    THEN <<SurdAffine(FSub(F(0), TPpf975(df)), scale, loc),
           SurdAffine(TPpf975(df), scale, loc)>>
    ELSE <<SurdNaN, SurdNaN>>

(***************************************************************************)
(* The log files.  A file is absent, unparsable at the requested row, or   *)
(* holds the requested scalar and a totals row (success, failure).         *)
(***************************************************************************)
OkFiles(withTotals) ==
    IF withTotals
    THEN {[kind |-> "ok", value |-> v, total_ok |-> TRUE, a |-> tt[1], b |-> tt[2]] :
              v \in PctValues, tt \in RawTotals}
         \cup {[kind |-> "ok", value |-> v, total_ok |-> FALSE, a |-> 0, b |-> 0] :
              v \in {5}}
    ELSE {[kind |-> "ok", value |-> v, total_ok |-> TRUE, a |-> 0, b |-> 0] : v \in RawValues}
BadFiles ==
    {[kind |-> k, value |-> 0, total_ok |-> FALSE, a |-> 0, b |-> 0] : k \in {"absent", "malformed"}}

\* the (success, failure) totals row of the files whose scalar is a count of
\* failed tasks
FailedTotals == <<15, 5>>

\* the readable files of a call: with 'percentage_of_all' the totals row is
\* read, with 'percentage_of_failed' the file has one that is not read
LogFiles(mode) ==
    IF mode = "percentage_of_all" THEN OkFiles(TRUE)
    ELSE IF mode = "percentage_of_failed"
         THEN {[file EXCEPT !.a = FailedTotals[1], !.b = FailedTotals[2]] :
                   file \in OkFiles(FALSE)}
         ELSE OkFiles(FALSE)

\* fault model: the division without the guard on a zero total
PercentageUnguarded(value, total_tasks) == Rat(100 * value, total_tasks)

\* the percentage of total_tasks that value is (lines 52-53)
Percentage(value, total_tasks) ==
    IF total_tasks > 0 THEN Rat(100 * value, total_tasks) ELSE F(0)

\* the try block of the reading loop: the exception raised ("" for none) and
\* the value it computed
TryRead(file, mode) ==
    IF file.kind = "absent" THEN [exc |-> "FileNotFoundError", value |-> NaN]
    ELSE IF file.kind = "malformed" THEN [exc |-> "Exception", value |-> NaN]
    ELSE IF mode = "percentage_of_all"
         THEN IF ~file.total_ok THEN [exc |-> "Exception", value |-> NaN]
              ELSE [exc |-> "", value |-> Percentage(file.value, file.a + file.b)]
         ELSE [exc |-> "", value |-> F(file.value)]

\* fault model: the except clauses leave the np.zeros value in the cell
MissingAsZero == F(0)

\* what both except clauses store in the cell
MissingMarker == NaN

\* fault model: the raw scalar is stored, the percentage left to the aggregate
CellValueRaw(file, mode) ==
    IF TryRead(file, mode).exc = "" THEN F(file.value) ELSE MissingMarker

\* the value all_results[s-1, i, j] is assigned for one file
CellValue(file, mode) ==
    LET r == TryRead(file, mode)
    IN  IF r.exc = "" THEN r.value ELSE MissingMarker

(***************************************************************************)
(* State of one invocation of plot_generic_line.                           *)
(***************************************************************************)
VARIABLES
    num_simulations,      \* config['num_iterations']
    num_scenarios,        \* len(scenarios)
    num_device_steps,     \* len(device_counts)
    calculate_percentage, \* argument
    divisor,              \* argument
    pc,                   \* "read", "aggregate", "ci", "plot", "done", "IndexError"
    s, i, j,              \* the counters of the reading loop (s is 1-based)
    files,                \* the files opened so far, in reading order
    log,                  \* the warnings printed so far
    all_results,
    results,
    mean_results,
    min_ci_vals,
    max_ci_vals,
    plotted               \* the series handed to ax.errorbar, one per scenario

(***************************************************************************)
(* State of one invocation of data_convertor.py, and avg_results of        *)
(* plotApDelay.py.  The other scripts are run on the variables above that  *)
(* carry the names they use (pc, s, i, j, files, log, results, ...); the   *)
(* variables a script does not have keep their initial values.             *)
(***************************************************************************)
VARIABLES
    target, method, datatype,                   \* sys.argv[2..4]
    sim_result_folder,                          \* config.json
    num_iterations, train_data_ratio,
    min_vehicle, max_vehicle, vehicle_step_size,
    ite, vehicle,                               \* the counters of lines 61-62
    data_set,
    targetColumns,
    size,
    df,
    arff,                                       \* the .arff file written through f
    avg_results

params == <<num_simulations, num_scenarios, num_device_steps, calculate_percentage, divisor>>
arrays == <<results, mean_results, min_ci_vals, max_ci_vals>>
args == <<target, method, datatype>>
config == <<sim_result_folder, num_iterations, train_data_ratio,
            min_vehicle, max_vehicle, vehicle_step_size>>
convertor == <<args, config, ite, vehicle, data_set, targetColumns, size, df, arff>>
vars == <<params, pc, s, i, j, files, log, all_results, arrays, plotted, convertor, avg_results>>

\* the variables of data_convertor.py in a run of another script
NoConvertor ==
    /\ target = "" /\ method = "" /\ datatype = ""
    /\ sim_result_folder = ""
    /\ num_iterations = 0 /\ train_data_ratio = 0
    /\ min_vehicle = 0 /\ max_vehicle = 0 /\ vehicle_step_size = 0
    /\ ite = 0 /\ vehicle = 0
    /\ data_set = <<>>
    /\ targetColumns = <<>>
    /\ size = 0
    /\ df = <<>>
    /\ arff = <<>>

Shapes ==
    {sh \in (1..MaxIter) \X (1..MaxScen) \X (1..MaxDev) : Prod(sh) <= MaxCells}

Init ==
    /\ \E sh \in Shapes, mode \in PctModes, d \in Divisors :
          /\ mode = "percentage_of_all" => Prod(sh) <= MaxPctCells
          /\ num_simulations = sh[1]
          /\ num_scenarios = sh[2]
          /\ num_device_steps = sh[3]
          /\ calculate_percentage = mode
          /\ divisor = d
          /\ all_results = Zeros(sh)
    /\ pc = "read"
    /\ s = 1 /\ i = 0 /\ j = 0
    /\ files = <<>>
    /\ log = <<>>
    /\ results = Unbound
    /\ mean_results = Unbound
    /\ min_ci_vals = Unbound
    /\ max_ci_vals = Unbound
    /\ plotted = <<>>
    /\ avg_results = Unbound
    /\ NoConvertor

\* one pass of the body of the reading loop (lines 38-61), for cell (s, i, j)
ReadCell ==
    /\ pc = "read"
    /\ \E file \in BadFiles \cup LogFiles(calculate_percentage) :
          LET r == TryRead(file, calculate_percentage)
          IN  /\ files' = Append(files, file)
              /\ all_results' = [all_results EXCEPT
                                   !.data[Flat3(all_results, s - 1, i, j)] =
                                       CellValue(file, calculate_percentage)]
              /\ log' = IF r.exc = "" THEN log
                        ELSE Append(log, [exc |-> r.exc, s |-> s, i |-> i, j |-> j])
    /\ IF j + 1 < num_device_steps
       THEN j' = j + 1 /\ UNCHANGED <<s, i, pc>>
       ELSE IF i + 1 < num_scenarios
            THEN j' = 0 /\ i' = i + 1 /\ UNCHANGED <<s, pc>>
            ELSE IF s < num_simulations
                 THEN j' = 0 /\ i' = 0 /\ s' = s + 1 /\ UNCHANGED pc
                 ELSE pc' = "aggregate" /\ UNCHANGED <<s, i, j>>
    /\ UNCHANGED <<params, arrays, plotted>>
    /\ UNCHANGED <<convertor, avg_results>>

\* a[i, j] and a[i, :] of a two-axis array, 0-based i and j
At2(a, i0, j0) == a.data[Flat2(a, i0, j0)]
Row(a, i0) == [k \in 1..a.shape[2] |-> a.data[Flat2(a, i0, k - 1)]]

\* fault model: the division is applied a second time
ScaleTwice(a, d) == ArrayDiv(ArrayDiv(a, d), d)

\* results /= divisor (line 69)
Scale(a, d) == ArrayDiv(a, d)

\* lines 63-69.  With one iteration results is np.squeeze(all_results), a
\* view: the in-place division also divides all_results.
Aggregate ==
    /\ pc = "aggregate"
    /\ IF num_simulations = 1
       THEN /\ results' = Scale(Squeeze(all_results), divisor)
            /\ all_results' = [all_results EXCEPT !.data = results'.data]
       ELSE /\ results' = Scale(NanMeanAxis0(all_results), divisor)
            /\ UNCHANGED all_results
    /\ pc' = "ci"
    /\ UNCHANGED <<params, s, i, j, files, log, mean_results, min_ci_vals, max_ci_vals, plotted>>
    /\ UNCHANGED <<convertor, avg_results>>

\* all_results[:, i, j][~np.isnan(all_results[:, i, j])] / divisor (line 79)
DataSlice(a, i0, j0, d) ==
    LET xs == DropNaN(IterSlice(a, i0, j0))
    IN  [k \in DOMAIN xs |-> FDiv(xs[k], F(d))]

\* fault model: the interval is computed from one sample on
HasIntervalFromOne(data_slice) == Len(data_slice) >= 1

\* the guard of line 80
HasInterval(data_slice) == Len(data_slice) > 1

\* line 81
StdErr(data_slice) == SurdDivSqrt(NpStd(data_slice, 1), Len(data_slice))

\* fault model: the lower offset taken as bound minus mean
LowerOffsetSwapped(mean, ci) == SurdMinusFloat(ci[1], mean)

\* lines 83 and 84
LowerOffset(mean, ci) == FloatMinusSurd(mean, ci[1])
UpperOffset(mean, ci) == SurdMinusFloat(ci[2], mean)

\* lines 79-84 for one cell: <<min_ci_vals[i, j], max_ci_vals[i, j]>>
CellOffsets(a, means, i0, j0, d) ==
    LET data_slice == DataSlice(a, i0, j0, d)
    IN  IF HasInterval(data_slice)
        THEN LET ci == TInterval(Len(data_slice) - 1, At2(means, i0, j0), StdErr(data_slice))
             IN  <<LowerOffset(At2(means, i0, j0), ci), UpperOffset(At2(means, i0, j0), ci)>>
        ELSE <<SurdZero, SurdZero>>

\* np.zeros_like(a), as offsets
ZerosLike(a) == [shape |-> a.shape, data |-> [p \in DOMAIN a.data |-> SurdZero]]

\* lines 71-84
ConfidenceInterval ==
    /\ pc = "ci"
    /\ mean_results' = ArrayDiv(NanMeanAxis0(all_results), divisor)
    /\ LET m == mean_results'
           off(p) == CellOffsets(all_results, m, (p - 1) \div m.shape[2], (p - 1) % m.shape[2], divisor)
       IN  IF num_simulations > 1
           THEN /\ min_ci_vals' = [shape |-> m.shape, data |-> [p \in DOMAIN m.data |-> off(p)[1]]]
                /\ max_ci_vals' = [shape |-> m.shape, data |-> [p \in DOMAIN m.data |-> off(p)[2]]]
           ELSE /\ min_ci_vals' = ZerosLike(m)
                /\ max_ci_vals' = ZerosLike(m)
    /\ pc' = "plot"
    /\ UNCHANGED <<params, s, i, j, files, log, all_results, results, plotted>>
    /\ UNCHANGED <<convertor, avg_results>>

\* results[i, :] needs two axes
CanIndexRow(a) == Ndim(a) >= 2

\* lines 95-103: one series per scenario (ax.errorbar, as both config.py set
\* plot_confidence_interval; ax.plot indexes results[i, :] in the same way)
Plot ==
    /\ pc = "plot"
    /\ CanIndexRow(results)
    /\ plotted' = [k \in 1..num_scenarios |->
                     [y |-> Row(results, k - 1),
                      lo |-> Row(min_ci_vals, k - 1),
                      hi |-> Row(max_ci_vals, k - 1)]]
    /\ pc' = "done"
    /\ UNCHANGED <<params, s, i, j, files, log, all_results, arrays>>
    /\ UNCHANGED <<convertor, avg_results>>

\* line 100 at i = 0 when results has fewer than two axes: IndexError
PlotIndexError ==
    /\ pc = "plot"
    /\ ~CanIndexRow(results)
    /\ pc' = "IndexError"
    /\ UNCHANGED <<params, s, i, j, files, log, all_results, arrays, plotted>>
    /\ UNCHANGED <<convertor, avg_results>>

Next == ReadCell \/ Aggregate \/ ConfidenceInterval \/ Plot \/ PlotIndexError

Spec == Init /\ [][Next]_vars

(***************************************************************************)
(* Vocabulary of the properties.                                           *)
(***************************************************************************)
NumCells == num_simulations * num_scenarios * num_device_steps
Positions == (0..(num_scenarios - 1)) \X (0..(num_device_steps - 1))
\* position of cell (s0, i0, j0) in reading order, s0 1-based
CellIndex(s0, i0, j0) == ((s0 - 1) * num_scenarios + i0) * num_device_steps + j0 + 1
\* position of (i0, j0) in a (scenario, device-count) table
PosIndex(i0, j0) == i0 * num_device_steps + j0 + 1

\* the file of a cell cannot be read: absent, or a row it needs is unparsable
Unreadable(file) ==
    \/ file.kind # "ok"
    \/ calculate_percentage = "percentage_of_all" /\ ~file.total_ok

Aggregated == pc \in {"ci", "plot", "done", "IndexError"}
Estimated == pc \in {"plot", "done", "IndexError"}

\* the iterations of position (i0, j0) whose file was readable
ReadableIters(i0, j0) ==
    {s0 \in 1..num_simulations : ~Unreadable(files[CellIndex(s0, i0, j0)])}

RECURSIVE SumOver(_, _)
\* sum of f[x] over the finite set S
SumOver(f, S) ==
    IF S = {} THEN F(0)
    ELSE LET x == CHOOSE y \in S : TRUE IN FAdd(f[x], SumOver(f, S \ {x}))

\* the table during the reading loop, cell by cell in reading order
C1_TableInv ==
    pc \in {"read", "aggregate"} =>
        /\ Len(files) = (IF pc = "read" THEN CellIndex(s, i, j) - 1 ELSE NumCells)
        /\ \A k \in 1..NumCells :
              IF k <= Len(files)
              THEN IsNaN(all_results.data[k]) <=> Unreadable(files[k])
              ELSE all_results.data[k] = F(0)
\* one pass of the loop body
C1_ReadStep ==
    pc = "read" =>
        /\ Len(files') = Len(files) + 1
        /\ \A k \in 1..NumCells :
              k # Len(files') => all_results'.data[k] = all_results.data[k]
        /\ Unreadable(files'[Len(files')]) =>
              /\ IsNaN(all_results'.data[Len(files')])
              /\ Len(log') = Len(log) + 1
        /\ pc' # "read" => Len(files') = NumCells
\* C1: in the reading loop a file that is absent or unparsable makes exactly
\* its own cell NaN (never 0, never a value read before the failure), a
\* readable file never makes its cell NaN, cells not yet reached still hold
\* the initial 0, a step of the loop changes no cell but the current one, and
\* aggregation starts only after every cell of the iteration x scenario x
\* device-count space has been attempted.
C1_MissingCellOnly == [](C1_TableInv) /\ [][C1_ReadStep]_vars
\* a run whose second file was absent while the first and the third were read
C1_Witness ==
    /\ pc = "aggregate"
    /\ NumCells >= 3
    /\ files[1].kind = "ok" /\ files[2].kind = "absent" /\ files[3].kind = "ok"
    /\ files[1].value = 5 /\ files[3].value = 1
    /\ ~IsNaN(all_results.data[1]) /\ IsNaN(all_results.data[2]) /\ ~IsNaN(all_results.data[3])

\* C2: in a run of several iterations, for every (scenario, device-count)
\* position with at least one readable iteration, the aggregated mean times
\* the number of readable iterations (times the divisor) is the sum of the
\* readable samples: missing iterations are in neither the sum nor the count.
C2_MeanOfNonMissing ==
    Aggregated /\ num_simulations > 1 =>
        \A pos \in Positions :
            LET R == ReadableIters(pos[1], pos[2])
                x == [s0 \in 1..num_simulations |->
                        all_results.data[CellIndex(s0, pos[1], pos[2])]]
            IN  R # {} =>
                  /\ ~IsNaN(At2(results, pos[1], pos[2]))
                  /\ FMul(At2(results, pos[1], pos[2]), F(Cardinality(R) * divisor))
                       = SumOver(x, R)
\* three iterations, the first missing, the others 1 and 5: mean 3
C2_Witness ==
    /\ pc = "done"
    /\ num_simulations = 3 /\ divisor = 1
    /\ files[1].kind = "malformed"
    /\ all_results.data[2] = F(1) /\ all_results.data[3] = F(5)
    /\ plotted[1].y[1] = F(3)

\* C3: a (scenario, device-count) position whose file is unreadable in every
\* iteration has an aggregated mean of NaN (missing, not 0) and both of its
\* confidence-interval offsets are 0.
C3_AllMissing ==
    Estimated =>
        \A pos \in Positions :
            ReadableIters(pos[1], pos[2]) = {} =>
                /\ IsNaN(results.data[PosIndex(pos[1], pos[2])])
                /\ results.data[PosIndex(pos[1], pos[2])] # F(0)
                /\ At2(min_ci_vals, pos[1], pos[2]) = SurdZero
                /\ At2(max_ci_vals, pos[1], pos[2]) = SurdZero
\* two iterations, two device counts: the first device count missing in
\* both iterations, the second one read
C3_Witness ==
    /\ pc = "done"
    /\ num_simulations = 2 /\ num_scenarios = 1 /\ num_device_steps = 2
    /\ ReadableIters(0, 0) = {} /\ ReadableIters(0, 1) = {1, 2}
    /\ IsNaN(plotted[1].y[1]) /\ ~IsNaN(plotted[1].y[2])
    /\ plotted[1].lo[1] = SurdZero /\ plotted[1].hi[1] = SurdZero

\* C4: a position with fewer than two readable iterations has both offsets
\* 0, in a run of several iterations and in a single-iteration run (where no
\* interval is computed at all); the series handed to the plot carry these 0.
C4_NoIntervalBelowTwo ==
    Estimated =>
        /\ \A pos \in Positions :
              Cardinality(ReadableIters(pos[1], pos[2])) < 2 =>
                  /\ At2(min_ci_vals, pos[1], pos[2]) = SurdZero
                  /\ At2(max_ci_vals, pos[1], pos[2]) = SurdZero
                  /\ pc = "done" =>
                        /\ plotted[pos[1] + 1].lo[pos[2] + 1] = SurdZero
                        /\ plotted[pos[1] + 1].hi[pos[2] + 1] = SurdZero
        /\ num_simulations = 1 =>
              \A p \in DOMAIN min_ci_vals.data :
                  min_ci_vals.data[p] = SurdZero /\ max_ci_vals.data[p] = SurdZero
\* two iterations, device counts [100, 200]: at the second device count
\* iteration 1 is missing and iteration 2 reads 5: mean 5, margin 0
C4_Witness ==
    /\ pc = "done"
    /\ num_simulations = 2 /\ num_scenarios = 1 /\ num_device_steps = 2 /\ divisor = 1
    /\ ReadableIters(0, 1) = {2}
    /\ files[4].value = 5
    /\ plotted[1].y[2] = F(5)
    /\ plotted[1].lo[2] = SurdZero /\ plotted[1].hi[2] = SurdZero

\* what the spec expects a cell to hold for one file: missing, the file's own
\* percentage 100 * value / (a + b) (0 for a zero total), or the raw scalar
ExpectedCell(file) ==
    IF Unreadable(file) THEN NaN
    ELSE IF calculate_percentage = "percentage_of_all"
         THEN IF file.a + file.b = 0 THEN F(0) ELSE Rat(100 * file.value, file.a + file.b)
         ELSE F(file.value)
ExpectedAt(s0, i0, j0) == ExpectedCell(files[CellIndex(s0, i0, j0)])

\* C5 (as stated): in a single-iteration run the call completes and series i
\* reports at position j the cell value of (i, j) divided by the divisor, for
\* any number of scenarios and device-count steps.
C5_SingleIterationIndexed ==
    num_simulations = 1 /\ pc \in {"done", "IndexError"} =>
        /\ pc = "done"
        /\ \A pos \in Positions :
              LET y == plotted[pos[1] + 1].y[pos[2] + 1]
                  x == ExpectedAt(1, pos[1], pos[2])
              IN  IF IsNaN(x) THEN IsNaN(y) ELSE FMul(y, F(divisor)) = x
\* what holds of the code: with at least two scenarios and two device-count
\* steps the single-iteration series are the cell values over the divisor
C5_HoldsWithTwoAxes ==
    num_simulations = 1 /\ num_scenarios > 1 /\ num_device_steps > 1
      /\ pc \in {"done", "IndexError"} =>
        /\ pc = "done"
        /\ \A pos \in Positions :
              LET y == plotted[pos[1] + 1].y[pos[2] + 1]
                  x == ExpectedAt(1, pos[1], pos[2])
              IN  IF IsNaN(x) THEN IsNaN(y) ELSE FMul(y, F(divisor)) = x

\* C6: with percentage_of_all, a file whose value v and totals (a, b) are
\* readable stores x with x * (a + b) = 100 * v when a + b # 0 and x = 0 when
\* a + b = 0; x is never NaN (no division by zero, no missing marker).
C6_PercentageOfTotal ==
    pc \in {"read", "aggregate"} /\ calculate_percentage = "percentage_of_all" =>
        \A k \in 1..Len(files) :
            files[k].kind = "ok" /\ files[k].total_ok =>
                LET x == all_results.data[k]
                    tot == files[k].a + files[k].b
                IN  /\ ~IsNaN(x)
                    /\ tot = 0 => x = F(0)
                    /\ tot # 0 => FMul(x, F(tot)) = F(100 * files[k].value)
\* value 5 with totals (15, 5) stored as 25, value 5 with totals (0, 0) as 0
C6_Witness ==
    /\ pc = "aggregate"
    /\ calculate_percentage = "percentage_of_all"
    /\ NumCells >= 2
    /\ files[1].kind = "ok" /\ files[1].value = 5 /\ files[1].a = 15 /\ files[1].b = 5
    /\ files[2].kind = "ok" /\ files[2].total_ok /\ files[2].value = 5
    /\ files[2].a = 0 /\ files[2].b = 0
    /\ all_results.data[1] = F(25)
    /\ all_results.data[2] = F(0)

\* C7: with percentage_of_all, every cell holds the percentage of its own
\* file (its value over its own totals), and in a run of several iterations
\* the reported mean times the number of readable iterations (times the
\* divisor) is the sum of these per-iteration percentages.
C7_PerIterationPercentage ==
    Aggregated /\ num_simulations > 1 /\ calculate_percentage = "percentage_of_all" =>
        /\ \A k \in 1..NumCells : all_results.data[k] = ExpectedCell(files[k])
        /\ \A pos \in Positions :
              LET R == ReadableIters(pos[1], pos[2])
                  pct == [s0 \in 1..num_simulations |-> ExpectedAt(s0, pos[1], pos[2])]
              IN  R # {} =>
                    FMul(At2(results, pos[1], pos[2]), F(Cardinality(R) * divisor))
                      = SumOver(pct, R)
\* 5 of (15, 5) and 5 of (5, 5): the mean of 25 and 50 is 75/2, while the
\* averaged value over the averaged totals would be 100 * 5 / 15 = 100/3
C7_Witness ==
    /\ pc = "done"
    /\ calculate_percentage = "percentage_of_all"
    /\ num_simulations = 2 /\ num_scenarios = 1 /\ num_device_steps = 1 /\ divisor = 1
    /\ files[1].kind = "ok" /\ files[1].value = 5 /\ files[1].a = 15 /\ files[1].b = 5
    /\ files[2].kind = "ok" /\ files[2].value = 5 /\ files[2].a = 5 /\ files[2].b = 5
    /\ plotted[1].y[1] = Rat(75, 2)
    /\ plotted[1].y[1] # Rat(100 * (files[1].value + files[2].value),
                             files[1].a + files[1].b + files[2].a + files[2].b)

\* the table the files define, before any division
RawTable ==
    [shape |-> <<num_simulations, num_scenarios, num_device_steps>>,
     data |-> [k \in 1..NumCells |-> ExpectedCell(files[k])]]
\* y / d for a value y = r + c*sqrt(q)
SurdOver(y, d) == Surd(FDiv(y.r, F(d)), y.c, FDiv(y.q, F(d * d)))

\* C8: for a positive divisor d every reported mean is the mean of the
\* undivided cells divided by d once (mean * d * count = sum of the undivided
\* readable cells), with one iteration and with several, and each reported
\* offset is the offset computed with divisor 1, divided by d; an offset that
\* is defined is a pure margin, so the interval is centred on the mean.
C8_DividedOnce ==
    pc = "done" /\ divisor > 0 =>
        \A pos \in Positions :
            LET R == ReadableIters(pos[1], pos[2])
                y == plotted[pos[1] + 1].y[pos[2] + 1]
                lo == plotted[pos[1] + 1].lo[pos[2] + 1]
                hi == plotted[pos[1] + 1].hi[pos[2] + 1]
                raw == [s0 \in 1..num_simulations |-> ExpectedAt(s0, pos[1], pos[2])]
                off1 == IF num_simulations > 1
                        THEN CellOffsets(RawTable, NanMeanAxis0(RawTable), pos[1], pos[2], 1)
                        ELSE <<SurdZero, SurdZero>>
            IN  /\ IF R = {} THEN IsNaN(y)
                   ELSE FMul(y, F(divisor * Cardinality(R))) = SumOver(raw, R)
                /\ lo = SurdOver(off1[1], divisor)
                /\ hi = SurdOver(off1[2], divisor)
                /\ ~SurdIsNaN(lo) => lo.r = F(0)
                /\ ~SurdIsNaN(hi) => hi.r = F(0)
\* divisor 60, two iterations reading 1 and 5: mean 3/60, and the margin
\* t * sqrt(4) of the undivided samples becomes t * sqrt(4/3600)
C8_Witness ==
    /\ pc = "done"
    /\ divisor = 60 /\ calculate_percentage = ""
    /\ num_simulations = 2
    /\ files[1].kind = "ok" /\ files[1].value = 1
    /\ files[num_scenarios * num_device_steps + 1].kind = "ok"
    /\ files[num_scenarios * num_device_steps + 1].value = 5
    /\ plotted[1].y[1] = Rat(1, 20)
    /\ plotted[1].lo[1] = Surd(F(0), TPpf975(1), Rat(1, 900))
    /\ plotted[1].hi[1] = Surd(F(0), TPpf975(1), Rat(1, 900))
\* divisor 60 in a single-iteration run of two scenarios and two device counts
C8_WitnessSingle ==
    /\ pc = "done"
    /\ divisor = 60 /\ num_simulations = 1
    /\ files[4].kind = "ok" /\ files[4].value = 5
    /\ plotted[2].y[2] = Rat(1, 12)

\* the sample variance (Bessel-corrected) of the readable samples of a
\* position in a run of several iterations, after the divisor
SampleOf(i0, j0) ==
    LET xs == DropNaN(IterSlice(all_results, i0, j0))
    IN  [k \in DOMAIN xs |-> FDiv(xs[k], F(divisor))]
BesselVariance(xs) ==
    LET n == Len(xs)
        m == FDiv(FSum(xs), F(n))
        dev2 == [k \in 1..n |-> FMul(FSub(xs[k], m), FSub(xs[k], m))]
    IN  FDiv(FSum(dev2), F(n - 1))

\* C9: for every position the lower offset (mean - lower bound) and the
\* upper offset (upper bound - mean) are the same value; where they are
\* defined they are one margin c*sqrt(q) with c >= 0 and no rational part,
\* and a position with two or more readable samples that are not all equal
\* has a defined, positive margin.
C9_SymmetricInterval ==
    Estimated =>
        \A pos \in Positions :
            LET lo == At2(min_ci_vals, pos[1], pos[2])
                hi == At2(max_ci_vals, pos[1], pos[2])
            IN  /\ lo = hi
                /\ ~SurdIsNaN(lo) => lo.r = F(0) /\ lo.c.n >= 0 /\ lo.q.n >= 0
                /\ pc = "done" =>
                      /\ plotted[pos[1] + 1].lo[pos[2] + 1] = lo
                      /\ plotted[pos[1] + 1].hi[pos[2] + 1] = hi
                /\ num_simulations > 1
                     /\ Len(SampleOf(pos[1], pos[2])) >= 2
                     /\ BesselVariance(SampleOf(pos[1], pos[2])) # F(0) =>
                        ~SurdIsNaN(lo) /\ lo.c.n > 0 /\ lo.q.n > 0
\* two iterations reading 1 and 5: both offsets are t * sqrt(8/2)
C9_Witness ==
    /\ pc = "done"
    /\ num_simulations = 2 /\ divisor = 1
    /\ all_results.data[1] = F(1)
    /\ all_results.data[num_scenarios * num_device_steps + 1] = F(5)
    /\ plotted[1].lo[1] = Surd(F(0), TPpf975(1), F(4))
    /\ plotted[1].hi[1] = Surd(F(0), TPpf975(1), F(4))

\* t_{0.975, n-1} * sqrt(variance / n)
ExpectedMargin(xs) ==
    Surd(F(0), TPpf975(Len(xs) - 1), FDiv(BesselVariance(xs), F(Len(xs))))

\* C10 (as stated): for every position with n >= 2 readable samples both
\* offsets are t_{0.975, n-1} times the standard error, the standard error
\* being sqrt(Bessel variance / n) over the readable samples; and at equal
\* variance the margin is smaller for the larger n.
C10_MarginIsTTimesStdErr ==
    Estimated /\ num_simulations > 1 =>
        /\ \A pos \in Positions :
              LET xs == SampleOf(pos[1], pos[2])
              IN  Len(xs) >= 2 =>
                    /\ At2(min_ci_vals, pos[1], pos[2]) = ExpectedMargin(xs)
                    /\ At2(max_ci_vals, pos[1], pos[2]) = ExpectedMargin(xs)
        /\ \A n1, n2 \in 2..num_simulations :
              n1 < n2 =>
                  FLess(FDiv(FMul(TPpf975(n2 - 1), TPpf975(n2 - 1)), F(n2)),
                        FDiv(FMul(TPpf975(n1 - 1), TPpf975(n1 - 1)), F(n1)))
\* what holds of the code: the same, for the positions whose readable samples
\* are not all equal
C10_HoldsForPositiveVariance ==
    Estimated /\ num_simulations > 1 =>
        \A pos \in Positions :
            LET xs == SampleOf(pos[1], pos[2])
            IN  Len(xs) >= 2 =>
                  IF BesselVariance(xs) = F(0)
                  THEN /\ SurdIsNaN(At2(min_ci_vals, pos[1], pos[2]))
                       /\ SurdIsNaN(At2(max_ci_vals, pos[1], pos[2]))
                  ELSE /\ At2(min_ci_vals, pos[1], pos[2]) = ExpectedMargin(xs)
                       /\ At2(max_ci_vals, pos[1], pos[2]) = ExpectedMargin(xs)

(***************************************************************************)
(* data_convertor.py (scripts/sample_app5/ai_trainer): reads the learner   *)
(* output files of the selected iterations, keeps the records of one       *)
(* offloading decision, balances them per VehicleCount, normalises the     *)
(* feature columns and writes a Weka .arff file.                           *)
(*                                                                         *)
(* A DataFrame is a record [columns, rows]: columns tells whether the      *)
(* frame still has its column labels, rows is the sequence of its rows.    *)
(* A row is [rec, Decision, Result, VehicleCount, x, ServiceTime]: rec is  *)
(* the identity of the record (iteration, vehicle count, line of the       *)
(* file), x is the value the row holds in every feature column.            *)
(***************************************************************************)
MaxIterations == 2
MaxVehicle == 2
MaxFilesRead == 2
MaxRecords == 5

\* sys.argv[2..4]; "cloud" is a target the script does not know
Targets == {"edge", "cloud_rsu", "cloud_gsm", "cloud"}
Methods == {"classifier", "regression"}
Datatypes == {"train", "test"}
Ratios == {50, 100}
Decisions == {"EDGE", "CLOUD_VIA_RSU", "CLOUD_VIA_GSM"}

\* a function that returns value, or raises exc
Returned(v) == [exc |-> "", value |-> v]
Raised(e) == [exc |-> e, value |-> <<>>]

\* fault model: the two cloud targets mapped to each other's decision
getDecisionColumnNameSwapped(t) ==
    IF t = "edge" THEN Returned("EDGE")
    ELSE IF t = "cloud_rsu" THEN Returned("CLOUD_VIA_GSM")
    ELSE IF t = "cloud_gsm" THEN Returned("CLOUD_VIA_RSU")
    ELSE Raised("UnboundLocalError")

\* lines 26-33: COLUMN_NAME is not bound when no branch is taken
getDecisionColumnName(t) ==
    IF t = "edge" THEN Returned("EDGE")
    ELSE IF t = "cloud_rsu" THEN Returned("CLOUD_VIA_RSU")
    ELSE IF t = "cloud_gsm" THEN Returned("CLOUD_VIA_GSM")
    ELSE Raised("UnboundLocalError")

\* lines 35-42
getClassifierColumns(t) ==
    IF t = "edge"
    THEN Returned(<<"NumOffloadedTask", "TaskLength", "WLANUploadDelay", "WLANDownloadDelay",
                    "AvgEdgeUtilization", "Result">>)
    ELSE IF t = "cloud_rsu"
    THEN Returned(<<"NumOffloadedTask", "WANUploadDelay", "WANDownloadDelay", "Result">>)
    ELSE IF t = "cloud_gsm"
    THEN Returned(<<"NumOffloadedTask", "GSMUploadDelay", "GSMDownloadDelay", "Result">>)
    ELSE Raised("UnboundLocalError")

\* lines 44-51
getRegressionColumns(t) ==
    IF t = "edge"
    THEN Returned(<<"TaskLength", "AvgEdgeUtilization", "ServiceTime">>)
    ELSE IF t = "cloud_rsu"
    THEN Returned(<<"TaskLength", "WANUploadDelay", "WANDownloadDelay", "ServiceTime">>)
    ELSE IF t = "cloud_gsm"
    THEN Returned(<<"TaskLength", "GSMUploadDelay", "GSMDownloadDelay", "ServiceTime">>)
    ELSE Raised("UnboundLocalError")

\* a / y for a float a and a standard deviation y; 0/0 is NaN
FloatDivRoot(a, y) ==
    IF SurdPositive(y) /\ ~a.nan
    THEN Surd(F(0), FDiv(a, y.c), FDiv(F(1), y.q))
    ELSE SurdNaN

\* Series.mean() and Series.std() (ddof = 1)
SeriesMean(column) == FDiv(FSum(column), F(Len(column)))
SeriesStd(column) == NpStd(column, 1)

\* lines 53-55
znorm(column) ==
    [k \in DOMAIN column |-> FloatDivRoot(FSub(column[k], SeriesMean(column)), SeriesStd(column))]

\* the decision of the records a learner output file holds besides its own
OtherDecision(d) ==
    IF d = "EDGE" THEN "CLOUD_VIA_RSU"
    ELSE IF d = "CLOUD_VIA_RSU" THEN "CLOUD_VIA_GSM"
    ELSE "EDGE"

\* sim_result_folder is modelled by what its files hold: records of one
\* decision and, at the end of every file, possibly one more record, either
\* of another decision (odd = "decision") or with "?" as Result (odd = "result");
\* records is the number of records that its files hold together at most
Folders == [decision : Decisions, odd : {"", "decision", "result"}, records : {MaxRecords}]

\* A learner output file of folder with nFail failed and nSucc successful
\* records, in this order, and the odd record of the folder.  The record of
\* line k holds k in its feature columns and 10k as ServiceTime.
LearnerFile(folder, nFail, nSucc) ==
    [kind |-> "ok",
     lines |-> [k \in 1..(nFail + nSucc + (IF folder.odd = "" THEN 0 ELSE 1)) |->
                  [line |-> k,
                   Decision |-> IF k > nFail + nSucc /\ folder.odd = "decision"
                                THEN OtherDecision(folder.decision)
                                ELSE folder.decision,
                   Result |-> IF k <= nFail THEN "fail"
                              ELSE IF k > nFail + nSucc /\ folder.odd = "result" THEN "?"
                              ELSE "success",
                   x |-> k,
                   ServiceTime |-> 10 * k]]]

\* the files of folder with at most room records (without the odd record
\* when there is room for none)
LearnerFiles(folder, room) ==
    LET kept == IF room = 0 THEN [folder EXCEPT !.odd = ""] ELSE folder
        left == IF kept.odd = "" THEN room ELSE room - 1
    IN  {LearnerFile(kept, c[1], c[2]) :
            c \in {c \in (0..left) \X (0..left) : c[1] + c[2] <= left}}

\* pd.read_csv(file_name, na_values = "?") and the VehicleCount column of
\* line 66: "?" is read as NaN
ReadCsv(file, it, v) ==
    [columns |-> TRUE,
     rows |-> [k \in DOMAIN file.lines |->
                 [rec |-> <<it, v, file.lines[k].line>>,
                  Decision |-> file.lines[k].Decision,
                  Result |-> IF file.lines[k].Result = "?" THEN "NaN" ELSE file.lines[k].Result,
                  VehicleCount |-> v,
                  x |-> F(file.lines[k].x),
                  ServiceTime |-> F(file.lines[k].ServiceTime)]]]

\* line 59
testDataStartIndex == Rat(train_data_ratio * num_iterations, 100)

\* fault model: the iteration at the start index is taken by train as well
SelectedInclusive(dt, it, start) ==
    \/ dt = "train" /\ ~FLess(start, F(it))
    \/ dt = "test" /\ ~FLess(F(it), start)

\* the condition of line 63
Selected(dt, it, start) ==
    \/ dt = "train" /\ FLess(F(it), start)
    \/ dt = "test" /\ ~FLess(F(it), start)

\* range(min_vehicle, max_vehicle + 1, vehicle_step_size), for a positive step
VehicleRange(lo, hi, step) == {v \in lo..hi : (v - lo) % step = 0}

\* the plotting variables in a run of data_convertor.py
NoPlot ==
    /\ num_simulations = 0 /\ num_scenarios = 0 /\ num_device_steps = 0
    /\ calculate_percentage = "" /\ divisor = 1
    /\ s = 0 /\ i = 0 /\ j = 0
    /\ log = <<>>
    /\ all_results = Unbound
    /\ results = Unbound
    /\ mean_results = Unbound
    /\ min_ci_vals = Unbound
    /\ max_ci_vals = Unbound
    /\ plotted = <<>>
    /\ avg_results = Unbound

\* the state at line 61; files lists the files opened so far
InitConvertor ==
    /\ \E t \in Targets, m \in Methods, dt \in Datatypes, folder \in Folders,
          n \in 1..MaxIterations, r \in Ratios, hi \in 1..MaxVehicle :
          /\ Cardinality({it \in 0..(n - 1) : Selected(dt, it, Rat(r * n, 100))})
                 * Cardinality(VehicleRange(1, hi, 1)) <= MaxFilesRead
          /\ target = t /\ method = m /\ datatype = dt
          /\ sim_result_folder = folder
          /\ num_iterations = n /\ train_data_ratio = r
          /\ min_vehicle = 1 /\ max_vehicle = hi /\ vehicle_step_size = 1
    /\ ite = 0
    /\ vehicle = min_vehicle
    /\ data_set = <<>>
    /\ targetColumns = <<>>
    /\ size = 0
    /\ df = <<>>
    /\ arff = <<>>
    /\ files = <<>>
    /\ pc = "loop"
    /\ NoPlot

RECURSIVE RowCount(_)
RowCount(frames) == IF frames = <<>> THEN 0 ELSE Len(Head(frames).rows) + RowCount(Tail(frames))

\* the loop header of lines 61-62 after one pass of the body
NextPass ==
    IF vehicle + vehicle_step_size <= max_vehicle
    THEN vehicle' = vehicle + vehicle_step_size /\ UNCHANGED <<ite, pc>>
    ELSE IF ite + 1 < num_iterations
         THEN vehicle' = min_vehicle /\ ite' = ite + 1 /\ UNCHANGED pc
         ELSE pc' = "concat" /\ UNCHANGED <<ite, vehicle>>

\* one pass of lines 63-68 for (ite, vehicle)
ReadLearnerOutput ==
    /\ pc = "loop"
    /\ IF Selected(datatype, ite, testDataStartIndex)
       THEN \E file \in LearnerFiles(sim_result_folder,
                                       sim_result_folder.records - RowCount(data_set)) :
               /\ files' = Append(files, [ite |-> ite, vehicle |-> vehicle])
               /\ data_set' = Append(data_set, ReadCsv(file, ite, vehicle))
       ELSE UNCHANGED <<files, data_set>>
    /\ NextPass
    /\ UNCHANGED <<args, config, targetColumns, size, df, arff>>
    /\ UNCHANGED <<params, s, i, j, log, all_results, arrays, plotted, avg_results>>

\* line 65 on a file that does not exist: the exception is not caught
ReadLearnerOutputMissing ==
    /\ pc = "loop"
    /\ Selected(datatype, ite, testDataStartIndex)
    /\ pc' = "FileNotFoundError"
    /\ UNCHANGED <<args, config, ite, vehicle, data_set, targetColumns, size, df, arff>>
    /\ UNCHANGED <<params, s, i, j, files, log, all_results, arrays, plotted, avg_results>>

\* pd.concat(frames, ignore_index=True) of a non-empty list: the frame has
\* the columns that any of the frames has
RECURSIVE ConcatRows(_)
ConcatRows(frames) ==
    IF frames = <<>> THEN <<>> ELSE Head(frames).rows \o ConcatRows(Tail(frames))
Concat(frames) ==
    [columns |-> \E k \in DOMAIN frames : frames[k].columns, rows |-> ConcatRows(frames)]

\* data_set[data_set['Decision'] == decision]
WithDecision(frame, decision) ==
    [columns |-> frame.columns,
     rows |-> SelectSeq(frame.rows, LAMBDA r : r.Decision = decision)]

\* lines 70-76 (lines 78-85 print statistics and change nothing)
Prepare ==
    /\ pc = "concat"
    /\ data_set # <<>>
    /\ getDecisionColumnName(target).exc = ""
    /\ data_set' = WithDecision(Concat(data_set), getDecisionColumnName(target).value)
    /\ targetColumns' = IF method = "classifier"
                        THEN getClassifierColumns(target).value
                        ELSE getRegressionColumns(target).value
    /\ pc' = "balance"
    /\ UNCHANGED <<args, config, ite, vehicle, size, df, arff>>
    /\ UNCHANGED <<params, s, i, j, files, log, all_results, arrays, plotted, avg_results>>

\* line 70 when no iteration was selected: pd.concat of an empty list
ConcatValueError ==
    /\ pc = "concat"
    /\ data_set = <<>>
    /\ pc' = "ValueError"
    /\ UNCHANGED <<args, config, ite, vehicle, data_set, targetColumns, size, df, arff>>
    /\ UNCHANGED <<params, s, i, j, files, log, all_results, arrays, plotted, avg_results>>

\* line 71 for a target that getDecisionColumnName does not know
UnknownTarget ==
    /\ pc = "concat"
    /\ data_set # <<>>
    /\ getDecisionColumnName(target).exc # ""
    /\ data_set' = Concat(data_set)
    /\ pc' = getDecisionColumnName(target).exc
    /\ UNCHANGED <<args, config, ite, vehicle, targetColumns, size, df, arff>>
    /\ UNCHANGED <<params, s, i, j, files, log, all_results, arrays, plotted, avg_results>>

\* the elements of a finite set of integers in increasing order
SortedSeq(S) ==
    [k \in 1..Cardinality(S) |-> CHOOSE x \in S : Cardinality({y \in S : y < x}) = k - 1]

\* groupby('VehicleCount'): the keys in increasing order, and the group of a key
GroupKeys(frame) == SortedSeq({frame.rows[k].VehicleCount : k \in DOMAIN frame.rows})
Group(frame, v) == SelectSeq(frame.rows, LAMBDA r : r.VehicleCount = v)

\* x.sample(n): n rows of x drawn without replacement.  The order in which
\* sample returns them is not modelled: they are kept in the order of x.
Sample(x, n) ==
    {[k \in 1..n |-> x[SortedSeq(T)[k]]] : T \in {T \in SUBSET DOMAIN x : Cardinality(T) = n}}

\* fault model: a group below the cap is filled up to the cap by repeating its first row
KeepOrSampleUp(x, cap) ==
    IF Len(x) < cap /\ x # <<>> THEN {x \o [k \in 1..(cap - Len(x)) |-> x[1]]} ELSE Sample(x, cap)

\* lambda x: x if len(x) < size else x.sample(size)
KeepOrSample(x, cap) == IF Len(x) < cap THEN {x} ELSE Sample(x, cap)

\* the rows apply can return for the groups of keys, concatenated in key order
RECURSIVE ApplyGroups(_, _, _)
ApplyGroups(frame, keys, cap) ==
    IF keys = <<>> THEN {<<>>}
    ELSE {a \o b : a \in KeepOrSample(Group(frame, Head(keys)), cap),
                   b \in ApplyGroups(frame, Tail(keys), cap)}

\* frame.groupby('VehicleCount').apply(lambda x: ...).  On a frame without
\* rows there is no group: pandas returns an empty frame, which keeps the
\* column labels or not depending on the pandas version.
GroupByApply(frame, cap) ==
    IF frame.rows = <<>>
    THEN {[columns |-> c, rows |-> <<>>] : c \in BOOLEAN}
    ELSE {[columns |-> TRUE, rows |-> rs] : rs \in ApplyGroups(frame, GroupKeys(frame), cap)}

\* frame[frame['Result'] == result] and frame[frame['VehicleCount'] == v]
WithResult(frame, result) ==
    [columns |-> frame.columns,
     rows |-> SelectSeq(frame.rows, LAMBDA r : r.Result = result)]
WithVehicleCount(frame, v) ==
    [columns |-> frame.columns,
     rows |-> SelectSeq(frame.rows, LAMBDA r : r.VehicleCount = v)]

\* fault model: the classifier cap taken as a third of the reference count
ClassifierSizeThird(df0, v) == Len(WithVehicleCount(df0, v).rows) \div 3

\* lines 96 and 107
ClassifierSize(df0, v) == Len(WithVehicleCount(df0, v).rows) \div 2
RegressionSize(frame, v) == Len(WithVehicleCount(frame, v).rows) \div 3

\* lines 89-108
Balance ==
    /\ pc = "balance"
    /\ IF method = "classifier"
       THEN LET df0 == WithResult(data_set, "fail")
                df1 == WithResult(data_set, "success")
            IN  /\ size' = ClassifierSize(df0, max_vehicle)
                /\ \E b1 \in GroupByApply(df1, size'), b0 \in GroupByApply(df0, size') :
                      data_set' = Concat(<<b0, b1>>)
       ELSE LET success == WithResult(data_set, "success")
            IN  /\ size' = RegressionSize(success, max_vehicle)
                /\ data_set' \in GroupByApply(success, size')
    /\ pc' = "extract"
    /\ UNCHANGED <<args, config, ite, vehicle, targetColumns, df, arff>>
    /\ UNCHANGED <<params, s, i, j, files, log, all_results, arrays, plotted, avg_results>>

\* the cells of df and the fields of a line of the .arff file: a string, a
\* number, an empty field or a comma
Str(str) == [kind |-> "str", s |-> str, v |-> SurdZero]
Num(v) == [kind |-> "num", s |-> "", v |-> v]
Empty == [kind |-> "empty", s |-> "", v |-> SurdZero]
Comma == [kind |-> "comma", s |-> ",", v |-> SurdZero]

\* data_set[column] for a numeric column
Column(frame, column) ==
    [k \in DOMAIN frame.rows |->
        IF column = "ServiceTime" THEN frame.rows[k].ServiceTime ELSE frame.rows[k].x]

\* fault model: every row normalised with the mean and deviation of its own stratum
NormalisedPerStratum(frame, column) ==
    [k \in DOMAIN frame.rows |->
        LET own == Column(WithVehicleCount(frame, frame.rows[k].VehicleCount), column)
        IN  FloatDivRoot(FSub(Column(frame, column)[k], SeriesMean(own)), SeriesStd(own))]

\* znorm(data_set[column]) (line 116)
Normalised(frame, column) == znorm(Column(frame, column))

\* lines 113-116: the column of df
ExtractColumn(frame, column) ==
    IF column = "Result"
    THEN [k \in DOMAIN frame.rows |-> Str(frame.rows[k].Result)]
    ELSE IF column = "ServiceTime"
    THEN [k \in DOMAIN frame.rows |-> Num(Surd(frame.rows[k].ServiceTime, F(0), F(0)))]
    ELSE [k \in DOMAIN frame.rows |-> Num(Normalised(frame, column)[k])]

\* lines 110-116
Extract ==
    /\ pc = "extract"
    /\ data_set.columns
    /\ df' = [columns |-> targetColumns,
              rows |-> [k \in DOMAIN data_set.rows |->
                          [c \in DOMAIN targetColumns |->
                              ExtractColumn(data_set, targetColumns[c])[k]]]]
    /\ pc' = "export"
    /\ UNCHANGED <<args, config, ite, vehicle, data_set, targetColumns, size, arff>>
    /\ UNCHANGED <<params, s, i, j, files, log, all_results, arrays, plotted, avg_results>>

\* data_set[column] on a frame that lost its column labels
ExtractKeyError ==
    /\ pc = "extract"
    /\ ~data_set.columns
    /\ pc' = "KeyError"
    /\ UNCHANGED <<args, config, ite, vehicle, data_set, targetColumns, size, df, arff>>
    /\ UNCHANGED <<params, s, i, j, files, log, all_results, arrays, plotted, avg_results>>

\* the text to_csv writes for one value: NaN is written as an empty field
CsvField(cell) == IF cell.kind = "num" /\ SurdIsNaN(cell.v) THEN Empty ELSE cell

\* fault model: the row label written in front of the values (index=True)
CsvLineWithIndex(fields, label) ==
    <<Num(Surd(F(label), F(0), F(0)))>>
    \o [k \in 1..(2 * Len(fields)) |->
           IF k % 2 = 1 THEN Comma ELSE CsvField(fields[k \div 2])]

\* one line of df.to_csv(f, header=False, index=False): the values of the
\* row in column order, separated by commas
CsvLine(fields, label) ==
    [k \in 1..(2 * Len(fields) - 1) |->
        IF k % 2 = 0 THEN Comma ELSE CsvField(fields[(k + 1) \div 2])]

\* line 126 (the labels of the rows of df are those of data_set)
ToCsv(frame) == [k \in DOMAIN frame.rows |-> CsvLine(frame.rows[k], k - 1)]

\* lines 120-124
Attribute(column) ==
    IF column = "Result"
    THEN [name |-> "class", type |-> "{fail,success}"]
    ELSE [name |-> column, type |-> "REAL"]

\* lines 118-127
Export ==
    /\ pc = "export"
    /\ arff' = [relation |-> target,
                attributes |-> [c \in DOMAIN targetColumns |-> Attribute(targetColumns[c])],
                data |-> ToCsv(df)]
    /\ pc' = "completed"
    /\ UNCHANGED <<args, config, ite, vehicle, data_set, targetColumns, size, df>>
    /\ UNCHANGED <<params, s, i, j, files, log, all_results, arrays, plotted, avg_results>>

NextConvertor ==
    \/ ReadLearnerOutput
    \/ ReadLearnerOutputMissing
    \/ Prepare
    \/ ConcatValueError
    \/ UnknownTarget
    \/ Balance
    \/ Extract
    \/ ExtractKeyError
    \/ Export

SpecConvertor == InitConvertor /\ [][NextConvertor]_vars

(***************************************************************************)
(* Vocabulary of the properties of data_convertor.py.                      *)
(***************************************************************************)
ResultGroups == {"fail", "success"}
VehicleCounts == VehicleRange(min_vehicle, max_vehicle, vehicle_step_size)

\* the records of one result group and one VehicleCount, in frame order
Stratum(frame, result, v) ==
    SelectSeq(frame.rows, LAMBDA r : r.Result = result /\ r.VehicleCount = v)

\* the result groups that the balancing of the mode works on
Balanced(result) == method = "classifier" \/ result = "success"

\* the balancing step, from the filtered data set to the balanced one
BalanceStep == pc = "balance" /\ pc' = "extract"

\* C11: balancing never enlarges a stratum of a result group, and returns a
\* stratum whose count is below the cap as it was: same records, same order.
C11_Step ==
    BalanceStep =>
        \A g \in ResultGroups, v \in VehicleCounts :
            LET input == Stratum(data_set, g, v)
                output == Stratum(data_set', g, v)
            IN  /\ Len(output) <= Len(input)
                /\ Balanced(g) /\ Len(input) < size' => output = input
C11_NeverEnlarged == [][C11_Step]_vars

\* a balanced data set that holds a non-empty stratum below the cap, next to
\* a stratum that was cut down to the cap
C11_Witness ==
    /\ pc = "extract"
    /\ \E g \in ResultGroups, v \in VehicleCounts :
          Len(Stratum(data_set, g, v)) \in 1..(size - 1)
    /\ \E g \in ResultGroups, v \in VehicleCounts :
          Len(Stratum(data_set, g, v)) = size

\* the identities of the records of a sequence of rows
Records(rows) == {rows[k].rec : k \in DOMAIN rows}

\* the number of records of the filtered data set with the given Result at max_vehicle
ReferenceCount(frame, result) ==
    Cardinality({k \in DOMAIN frame.rows :
                    frame.rows[k].Result = result /\ frame.rows[k].VehicleCount = max_vehicle})

\* the cap of the mode: half the failures, or a third of the successes, at max_vehicle
ExpectedCap(frame) ==
    IF method = "classifier"
    THEN ReferenceCount(frame, "fail") \div 2
    ELSE ReferenceCount(frame, "success") \div 3

\* C12: the cap is the floor of half the failure count (classifier) or of a
\* third of the success count (regression) of the max_vehicle stratum, one
\* cap for both result groups; a stratum of at least cap records yields
\* exactly cap records, pairwise distinct and all from that stratum.
C12_Step ==
    BalanceStep =>
        /\ size' = ExpectedCap(data_set)
        /\ \A g \in ResultGroups, v \in VehicleCounts :
              LET input == Stratum(data_set, g, v)
                  output == Stratum(data_set', g, v)
              IN  Balanced(g) /\ Len(input) >= size' =>
                      /\ Len(output) = size'
                      /\ Cardinality(Records(output)) = size'
                      /\ Records(output) \subseteq Records(input)
C12_SampledToCap == [][C12_Step]_vars

\* a balanced data set with a positive cap in which a stratum of failures
\* and a stratum of successes were both cut down to the cap
C12_Witness ==
    /\ pc = "extract"
    /\ size >= 1
    /\ \A g \in ResultGroups :
          \E v \in VehicleCounts : Len(Stratum(data_set, g, v)) = size

\* the decision that a target stands for
DecisionOf(t) ==
    CASE t = "edge" -> "EDGE"
      [] t = "cloud_rsu" -> "CLOUD_VIA_RSU"
      [] t = "cloud_gsm" -> "CLOUD_VIA_GSM"
      [] OTHER -> "none"

\* data_set is the balanced data set
IsBalanced == pc \in {"extract", "export", "completed"}

\* C13: every record of the balanced data set has the decision of the
\* target; in regression mode none of them has Result 'fail'; df and the
\* data block of the .arff file hold one row per record of that data set.
C13_TargetDecisionOnly ==
    /\ IsBalanced =>
          \A k \in DOMAIN data_set.rows :
              /\ data_set.rows[k].Decision = DecisionOf(target)
              /\ method = "regression" => data_set.rows[k].Result # "fail"
    /\ pc \in {"export", "completed"} => Len(df.rows) = Len(data_set.rows)
    /\ pc = "completed" => Len(arff.data) = Len(data_set.rows)

\* an .arff file with at least one row written in regression mode for a
\* cloud target from a folder whose files also hold records of another decision
C13_Witness ==
    /\ pc = "completed"
    /\ method = "regression"
    /\ target \in {"cloud_rsu", "cloud_gsm"}
    /\ sim_result_folder.odd = "decision"
    /\ Len(arff.data) >= 1

\* C14: a run that ends with the error of an unknown target has opened no
\* learner output file.
C14_NoFileBeforeConfigError ==
    pc = "UnboundLocalError" => files = <<>>

\* the columns of df that are normalised
NormalisedColumns ==
    {c \in DOMAIN targetColumns : targetColumns[c] \notin {"Result", "ServiceTime"}}

\* the standard deviation of a normalised column over the balanced data set
\* is 0 (all values equal) or undefined (a single row)
ZeroDeviation(c) ==
    /\ data_set.rows # <<>>
    /\ ~SurdPositive(SeriesStd(Column(data_set, targetColumns[c])))

\* C15: no .arff file is written from a balanced data set in which a
\* normalised column has standard deviation 0; the run ends with an error
\* instead.
C15_ZeroDeviationIsAnError ==
    pc \in {"export", "completed"} => \A c \in NormalisedColumns : ~ZeroDeviation(c)

\* an .arff file written with an empty field in every line of a normalised
\* column whose standard deviation is 0 (reachable: what C15 excludes)
C15_UndefinedColumnWritten ==
    /\ pc = "completed"
    /\ arff.data # <<>>
    /\ \E c \in NormalisedColumns :
          /\ ZeroDeviation(c)
          /\ \A k \in DOMAIN arff.data : arff.data[k][2 * c - 1] = Empty

\* some stratum that the balancing of the mode works on holds a record
SomeRecord(frame) ==
    \E g \in ResultGroups, v \in VehicleCounts : Balanced(g) /\ Stratum(frame, g, v) # <<>>

\* C16: the balancing step does not go on to the extraction with every
\* stratum reduced to zero records: from a data set that holds records it
\* leaves records (or the run ends with an error).
C16_Step == BalanceStep /\ SomeRecord(data_set) => SomeRecord(data_set')
C16_NotAllReducedToZero == [][C16_Step]_vars

\* an .arff file without any row written after a balancing with cap 0
\* (reachable: the run that C16 excludes completes)
C16_EmptyFileWritten ==
    /\ pc = "completed"
    /\ size = 0
    /\ arff.data = <<>>
    /\ sim_result_folder.decision = DecisionOf(target)

\* z = (x - mean) / sqrt(variance), for z = c * sqrt(q): z has the sign of
\* x - mean and z^2 * variance = (x - mean)^2; undefined when the variance is
\* 0 or undefined
IsZScore(z, x, mean, variance) ==
    IF variance.nan \/ variance.n = 0 THEN SurdIsNaN(z)
    ELSE LET d == FSub(x, mean)
         IN  /\ ~SurdIsNaN(z)
             /\ z.r = F(0)
             /\ FMul(FMul(FMul(z.c, z.c), z.q), variance) = FMul(d, d)
             /\ (z.c.n > 0) = (d.n > 0)
             /\ (z.c.n < 0) = (d.n < 0)

\* C18: in df every value of a normalised column is the z-score of the
\* value of its record with the one mean and the one (ddof = 1) variance of
\* that column over all rows of the balanced data set; Result and
\* ServiceTime hold the values of the record as they were read.
C18_OneMeanOneDeviation ==
    pc \in {"export", "completed"} =>
        \A k \in DOMAIN df.rows, c \in DOMAIN targetColumns :
            LET column == targetColumns[c]
                record == data_set.rows[k]
                all == Column(data_set, column)
            IN  IF column = "Result" THEN df.rows[k][c] = Str(record.Result)
                ELSE /\ df.rows[k][c].kind = "num"
                     /\ IF column = "ServiceTime"
                        THEN df.rows[k][c].v = Surd(F(10 * record.rec[3]), F(0), F(0))
                        ELSE IsZScore(df.rows[k][c].v, F(record.rec[3]),
                                      FDiv(FSum(all), F(Len(all))), BesselVariance(all))

\* df of a balanced data set with records of both vehicle counts whose
\* normalised columns have a positive standard deviation
C18_Witness ==
    /\ pc = "completed"
    /\ Len(df.rows) >= 3
    /\ NormalisedColumns # {}
    /\ \A c \in NormalisedColumns : ~ZeroDeviation(c)
    /\ \A v \in 1..MaxVehicle : \E k \in DOMAIN data_set.rows : data_set.rows[k].VehicleCount = v

\* the comma-separated values of a line of the data block
Values(line) == SelectSeq(line, LAMBDA field : field # Comma)
Commas(line) == Len(SelectSeq(line, LAMBDA field : field = Comma))

\* C19: every line of the data block holds as many comma-separated values
\* as attributes are declared; the attributes are declared in the order of
\* targetColumns and the c-th value of line k is the value of df in row k,
\* column c (so no row label and no column name is written); the values of
\* the class attribute are 'fail' or 'success', those of a REAL attribute
\* numbers or empty.
C19_RowsMatchAttributes ==
    pc = "completed" =>
        /\ Len(arff.attributes) = Len(targetColumns)
        /\ \A c \in DOMAIN targetColumns :
              arff.attributes[c].name =
                  (IF targetColumns[c] = "Result" THEN "class" ELSE targetColumns[c])
        /\ Len(arff.data) = Len(df.rows)
        /\ \A k \in DOMAIN arff.data :
              /\ Commas(arff.data[k]) + 1 = Len(arff.attributes)
              /\ Len(Values(arff.data[k])) = Len(arff.attributes)
              /\ \A c \in DOMAIN arff.attributes :
                    LET value == Values(arff.data[k])[c]
                    IN  /\ arff.data[k][2 * c - 1] = value
                        /\ IF arff.attributes[c].name = "class"
                           THEN value \in {Str("fail"), Str("success")}
                           ELSE /\ value.kind \in {"num", "empty"}
                                /\ value.kind = "num" => value = df.rows[k][c]
                                /\ value.kind = "empty" => SurdIsNaN(df.rows[k][c].v)

\* a classifier file with at least two data rows, written from a folder
\* whose files also hold records with an undefined Result
C19_Witness ==
    /\ pc = "completed"
    /\ method = "classifier"
    /\ sim_result_folder.odd = "result"
    /\ sim_result_folder.decision = DecisionOf(target)
    /\ Len(arff.data) >= 2

(***************************************************************************)
(* plotApDelay.py (scripts/tutorial4/python): per iteration and device     *)
(* count it reads the upload and the download delay log, stores the sum of *)
(* their column means per access point in results, and plots the mean over *)
(* the iterations.  The run uses num_simulations, num_device_steps, s, i,  *)
(* j, files, log, results, plotted and avg_results; files lists the pairs  *)
(* of logs the loop tried to read.                                         *)
(***************************************************************************)
\* len(place_types)
NumPlaceTypes == 3

\* np.full(shape, np.nan)
FullNaN(sh) == [shape |-> sh, data |-> [k \in 1..Prod(sh) |-> NaN]]

\* A delay log is absent, unparsable, or readable: then the mean of its
\* column i + 1 is mean + i.  "unopened" is the download log of a pass whose
\* upload log could not be read.
ApValues == {1, 2}
ApLogs ==
    {[kind |-> k, mean |-> 0] : k \in {"absent", "malformed"}}
    \cup {[kind |-> "ok", mean |-> v] : v \in ApValues}
Unopened == [kind |-> "unopened", mean |-> 0]
ApLogPairs ==
    {<<f1, f2>> \in ApLogs \X (ApLogs \cup {Unopened}) :
        (f1.kind = "ok") = (f2 # Unopened)}

\* data.iloc[:, i + 1].mean()
ColumnMean(data, i0) == F(data.mean + i0)

\* results[s0, i0, j0] = ... raises IndexError unless 0 <= s0 < results.shape[0]
\* (negative indices do not occur)
InsideAxis0(a, s0) == s0 < a.shape[1]

\* the variables of plot_generic_line that the other plotting scripts do not have
NoLine ==
    /\ num_scenarios = 0
    /\ calculate_percentage = ""
    /\ divisor = 1
    /\ all_results = Unbound
    /\ mean_results = Unbound
    /\ min_ci_vals = Unbound
    /\ max_ci_vals = Unbound

\* the state at line 18
InitApDelay ==
    /\ \E sh \in (1..MaxIter) \X (1..MaxDev) :
          /\ sh[1] * sh[2] <= MaxCells
          /\ num_simulations = sh[1]
          /\ num_device_steps = sh[2]
          /\ results = FullNaN(<<sh[1], NumPlaceTypes, sh[2]>>)
    /\ s = 1 /\ i = 0 /\ j = 0
    /\ files = <<>>
    /\ log = <<>>
    /\ plotted = <<>>
    /\ avg_results = Unbound
    /\ pc = "ap_read"
    /\ NoLine
    /\ NoConvertor

\* one pass of lines 20-34 for (s, j).  The first statement that raises ends
\* the pass: a log that cannot be read, or the first assignment to
\* results[s, ...] when s is outside the iteration axis; the except clause
\* prints nothing.
ApReadCell ==
    /\ pc = "ap_read"
    /\ \E pair \in ApLogPairs :
          LET data1 == pair[1]
              data2 == pair[2]
              mean_delay(i0) == FAdd(ColumnMean(data1, i0), ColumnMean(data2, i0))
          IN  /\ files' = Append(files, [s |-> s, j |-> j, f1 |-> data1, f2 |-> data2])
              /\ results' =
                    IF data1.kind = "ok" /\ data2.kind = "ok" /\ InsideAxis0(results, s)
                    THEN [results EXCEPT !.data =
                            [p \in DOMAIN results.data |->
                                IF \E i0 \in 0..(NumPlaceTypes - 1) : p = Flat3(results, s, i0, j)
                                THEN mean_delay(CHOOSE i0 \in 0..(NumPlaceTypes - 1) :
                                                    p = Flat3(results, s, i0, j))
                                ELSE results.data[p]]]
                    ELSE results
    /\ i' = IF files'[Len(files')].f1.kind = "ok" /\ files'[Len(files')].f2.kind = "ok"
            THEN (IF InsideAxis0(results, s) THEN NumPlaceTypes - 1 ELSE 0)
            ELSE i
    /\ IF j + 1 < num_device_steps
       THEN j' = j + 1 /\ UNCHANGED <<s, pc>>
       ELSE IF s < num_simulations
            THEN j' = 0 /\ s' = s + 1 /\ UNCHANGED pc
            ELSE pc' = "ap_mean" /\ UNCHANGED <<s, j>>
    /\ UNCHANGED <<params, log, all_results, mean_results, min_ci_vals, max_ci_vals, plotted>>
    /\ UNCHANGED <<convertor, avg_results>>

\* line 36
ApMean ==
    /\ pc = "ap_mean"
    /\ avg_results' = NanMeanAxis0(results)
    /\ pc' = "ap_plot"
    /\ UNCHANGED <<params, s, i, j, files, log, all_results, arrays, plotted, convertor>>

\* lines 45-50: one series per access point
ApPlot ==
    /\ pc = "ap_plot"
    /\ plotted' = [k \in 1..NumPlaceTypes |-> [y |-> Row(avg_results, k - 1)]]
    /\ pc' = "ap_done"
    /\ UNCHANGED <<params, s, i, j, files, log, all_results, arrays, convertor, avg_results>>

NextApDelay == ApReadCell \/ ApMean \/ ApPlot

SpecApDelay == InitApDelay /\ [][NextApDelay]_vars

\* the pass for (s, j) ended in the except clause before both logs were read
ApReadFailed(pass) == pass.f1.kind # "ok" \/ pass.f2.kind # "ok"

\* C17: every pass whose logs could not be read, and whose cell is left
\* missing for it, has a report in the output that names the pass.
C17_AbsorbedErrorsReported ==
    \A k \in DOMAIN files :
        ApReadFailed(files[k]) =>
            \E l \in DOMAIN log : log[l].s = files[k].s /\ log[l].j = files[k].j

\* plot_generic_line does report: every file of the reading loop that could
\* not be read has its warning, which names the cell of the file
C17_GenericLineReports ==
    \A k \in DOMAIN files :
        Unreadable(files[k]) =>
            \E l \in DOMAIN log : CellIndex(log[l].s, log[l].i, log[l].j) = k

(***************************************************************************)
(* plot_location_heatmap (scripts/tutorial3/python/plotLocation.py): per   *)
(* iteration and device count it adds the column means of the location log *)
(* to the row of the device count in results, divides results by the       *)
(* number of iterations and draws the heat map.  The run uses              *)
(* num_simulations, num_device_steps, s, i, files, log, results and        *)
(* plotted; files lists the logs the loop tried to read.                   *)
(***************************************************************************)
place_count == 14

\* A location log is absent, unparsable, or readable: then the mean of the
\* column of place k (1-based) is mean + k.
LocationValues == {1, 2}
LocationLogs ==
    {[kind |-> k, mean |-> 0] : k \in {"absent", "malformed"}}
    \cup {[kind |-> "ok", mean |-> v] : v \in LocationValues}

\* data.mean(axis=0).values
PlaceMeans(data) == [k \in 1..place_count |-> F(data.mean + k)]

\* np.full(place_count, np.nan)
PlaceNaNs == [k \in 1..place_count |-> NaN]

\* results[i0, :] += row
AddToRow(a, i0, row) ==
    [a EXCEPT !.data =
        [p \in DOMAIN a.data |->
            IF (p - 1) \div a.shape[2] = i0
            THEN FAdd(a.data[p], row[((p - 1) % a.shape[2]) + 1])
            ELSE a.data[p]]]

\* the state at line 30
InitLocation ==
    /\ \E sh \in (1..MaxIter) \X (1..MaxDev) :
          /\ sh[1] * sh[2] <= MaxCells
          /\ num_simulations = sh[1]
          /\ num_device_steps = sh[2]
          /\ results = Zeros(<<sh[2], place_count>>)
    /\ s = 1 /\ i = 0 /\ j = 0
    /\ files = <<>>
    /\ log = <<>>
    /\ plotted = <<>>
    /\ avg_results = Unbound
    /\ pc = "location_read"
    /\ NoLine
    /\ NoConvertor

\* one pass of lines 32-48 for (s, i): both except clauses print the path
\* and add NaN to the row
LocationReadCell ==
    /\ pc = "location_read"
    /\ \E data \in LocationLogs :
          /\ files' = Append(files, [s |-> s, i |-> i, data |-> data])
          /\ results' = AddToRow(results, i, IF data.kind = "ok" THEN PlaceMeans(data) ELSE PlaceNaNs)
          /\ log' = IF data.kind = "ok" THEN log
                    ELSE Append(log, [exc |-> IF data.kind = "absent"
                                              THEN "FileNotFoundError" ELSE "Exception",
                                      s |-> s, i |-> i])
    /\ IF i + 1 < num_device_steps
       THEN i' = i + 1 /\ UNCHANGED <<s, pc>>
       ELSE IF s < num_simulations
            THEN i' = 0 /\ s' = s + 1 /\ UNCHANGED pc
            ELSE pc' = "location_average" /\ UNCHANGED <<s, i>>
    /\ UNCHANGED <<params, j, all_results, mean_results, min_ci_vals, max_ci_vals, plotted>>
    /\ UNCHANGED <<convertor, avg_results>>

\* line 51
LocationAverage ==
    /\ pc = "location_average"
    /\ results' = ArrayDiv(results, num_simulations)
    /\ pc' = "location_plot"
    /\ UNCHANGED <<params, s, i, j, files, log, all_results, mean_results, min_ci_vals, max_ci_vals, plotted>>
    /\ UNCHANGED <<convertor, avg_results>>

\* lines 100-102: the heat map has one row per device count
LocationHeatmap ==
    /\ pc = "location_plot"
    /\ plotted' = [k \in 1..num_device_steps |-> [y |-> Row(results, k - 1)]]
    /\ pc' = "location_done"
    /\ UNCHANGED <<params, s, i, j, files, log, all_results, arrays, convertor, avg_results>>

NextLocation == LocationReadCell \/ LocationAverage \/ LocationHeatmap

SpecLocation == InitLocation /\ [][NextLocation]_vars

\* the passes of device count i0 whose log was read
ReadablePasses(i0) == {k \in DOMAIN files : files[k].i = i0 /\ files[k].data.kind = "ok"}

\* the sum of the means of place k over a set of passes
RECURSIVE PlaceSum(_, _)
PlaceSum(passes, k) ==
    IF passes = {} THEN F(0)
    ELSE LET p == CHOOSE q \in passes : TRUE
         IN  FAdd(F(files[p].data.mean + k), PlaceSum(passes \ {p}, k))

\* C20: for every device count with at least one readable iteration the
\* reported mean of every place is defined and is the average of the logs
\* that were read: mean * (number of readable iterations) = their sum.
C20_MeanOverReadable ==
    pc \in {"location_plot", "location_done"} =>
        \A i0 \in 0..(num_device_steps - 1), k \in 1..place_count :
            ReadablePasses(i0) # {} =>
                /\ ~IsNaN(At2(results, i0, k - 1))
                /\ FMul(At2(results, i0, k - 1), F(Cardinality(ReadablePasses(i0))))
                       = PlaceSum(ReadablePasses(i0), k)

\* without a missing log the reported mean is the average over all iterations
C20_HoldsWhenAllRead ==
    pc \in {"location_plot", "location_done"} /\ log = <<>> =>
        \A i0 \in 0..(num_device_steps - 1), k \in 1..place_count :
            FMul(At2(results, i0, k - 1), F(num_simulations)) = PlaceSum(ReadablePasses(i0), k)

\* plot_location_heatmap does report: every log that could not be read has
\* its message
C17_LocationReports ==
    \A k \in DOMAIN files :
        files[k].data.kind # "ok" =>
            \E l \in DOMAIN log : log[l].s = files[k].s /\ log[l].i = files[k].i

(***************************************************************************)
(* Vocabulary of the properties of plotApDelay.py.                         *)
(***************************************************************************)
\* the passes of device count j0 in which both logs were read
ApReadablePasses(j0) == {k \in DOMAIN files : files[k].j = j0 /\ ~ApReadFailed(files[k])}

\* the delay of access point i0 that the logs of a pass give
ApDelayOf(pass, i0) == F((pass.f1.mean + i0) + (pass.f2.mean + i0))

\* the sum of the delays of access point i0 over a set of passes
RECURSIVE ApDelaySum(_, _)
ApDelaySum(passes, i0) ==
    IF passes = {} THEN F(0)
    ELSE LET p == CHOOSE q \in passes : TRUE
         IN  FAdd(ApDelayOf(files[p], i0), ApDelaySum(passes \ {p}, i0))

ApAveraged == pc \in {"ap_plot", "ap_done"}

\* C21: the delay computed in the pass of iteration s is stored in slot
\* s - 1 of the iteration axis, the slot of that iteration among the N, and
\* every iteration whose two logs were read contributes to the averaged
\* series: for a device count with readable iterations the average is
\* defined and average * (number of readable iterations) = sum of their delays.
C21_EveryIterationContributes ==
    /\ \A k \in DOMAIN files, i0 \in 0..(NumPlaceTypes - 1) :
          ~ApReadFailed(files[k]) =>
              results.data[Flat3(results, files[k].s - 1, i0, files[k].j)]
                  = ApDelayOf(files[k], i0)
    /\ ApAveraged =>
          \A j0 \in 0..(num_device_steps - 1), i0 \in 0..(NumPlaceTypes - 1) :
              ApReadablePasses(j0) # {} =>
                  /\ ~IsNaN(At2(avg_results, i0, j0))
                  /\ FMul(At2(avg_results, i0, j0), F(Cardinality(ApReadablePasses(j0))))
                         = ApDelaySum(ApReadablePasses(j0), i0)

\* a run of at least two iterations with every log readable, in which slot
\* 0 is still NaN, the delay of iteration s sits in slot s and the series
\* averages the iterations before the last (reachable: what the code does)
C21_LastIterationLost ==
    /\ pc = "ap_done"
    /\ num_simulations >= 2
    /\ \A k \in DOMAIN files : ~ApReadFailed(files[k])
    /\ \A j0 \in 0..(num_device_steps - 1), i0 \in 0..(NumPlaceTypes - 1) :
          /\ IsNaN(results.data[Flat3(results, 0, i0, j0)])
          /\ \A k \in ApReadablePasses(j0) :
                files[k].s < num_simulations =>
                    results.data[Flat3(results, files[k].s, i0, j0)] = ApDelayOf(files[k], i0)
          /\ FMul(At2(avg_results, i0, j0), F(num_simulations - 1))
                 = ApDelaySum({k \in ApReadablePasses(j0) : files[k].s < num_simulations}, i0)

(***************************************************************************)
(* The percentage modes of plot_generic_line.                              *)
(***************************************************************************)
\* the whole a mode's name says the scalar is a part of: all the tasks, or
\* the failed tasks
TotalOf(file) ==
    IF calculate_percentage = "percentage_of_all" THEN file.a + file.b ELSE file.b

\* C23 (as stated): with a percentage mode that is not empty, the cell of
\* every readable file holds the scalar converted to a percentage, and a
\* plotted series is not the raw count.
C23_PercentageModesConvert ==
    calculate_percentage # "" /\ pc \in {"read", "aggregate"} =>
        \A k \in 1..Len(files) :
            ~Unreadable(files[k]) =>
                all_results.data[k] = Percentage(files[k].value, TotalOf(files[k]))

\* with 'percentage_of_failed' the series that is drawn is the raw count: 5
\* failed tasks of 5 in both iterations are drawn as 5, not as 100
C23_RawCountPlotted ==
    /\ pc = "done"
    /\ calculate_percentage = "percentage_of_failed"
    /\ num_simulations = 2 /\ num_scenarios = 1 /\ num_device_steps = 1 /\ divisor = 1
    /\ files[1].kind = "ok" /\ files[1].value = 5 /\ files[1].b = 5
    /\ files[2].kind = "ok" /\ files[2].value = 5 /\ files[2].b = 5
    /\ plotted[1].y[1] = F(5)

\* with 'percentage_of_all' the cells hold percentages
C23_HoldsForPercentageOfAll ==
    calculate_percentage = "percentage_of_all" /\ pc \in {"read", "aggregate"} =>
        \A k \in 1..Len(files) :
            ~Unreadable(files[k]) =>
                all_results.data[k] = Percentage(files[k].value, TotalOf(files[k]))

-----------------------------------------------------------------------------
\* The reading loop of data_convertor.py (lines 57-70) over every training
\* ratio: which iterations a train run and a test run read

MaxSplitIterations == 4

SplitRatios == 0..100

\* a folder whose learner files hold the header line and no record
SplitFolders == {[decision |-> "EDGE", odd |-> "", records |-> 0]}

InitSplit ==
    /\ \E dt \in Datatypes, folder \in SplitFolders,
          n \in 1..MaxSplitIterations, r \in SplitRatios, hi \in 1..MaxVehicle :
          /\ target = "edge" /\ method = "classifier" /\ datatype = dt
          /\ sim_result_folder = folder
          /\ num_iterations = n /\ train_data_ratio = r
          /\ min_vehicle = 1 /\ max_vehicle = hi /\ vehicle_step_size = 1
    /\ ite = 0
    /\ vehicle = min_vehicle
    /\ data_set = <<>>
    /\ targetColumns = <<>>
    /\ size = 0
    /\ df = <<>>
    /\ arff = <<>>
    /\ files = <<>>
    /\ pc = "loop"
    /\ NoPlot

NextSplit ==
    \/ ReadLearnerOutput
    \/ ReadLearnerOutputMissing
    \/ Prepare
    \/ ConcatValueError

SpecSplit == InitSplit /\ [][NextSplit]_vars

\* the iterations of the simulation
Iterations == 0..(num_iterations - 1)

\* the iterations below train_data_ratio * num_iterations / 100
TrainIterations == {it \in Iterations : 100 * it < train_data_ratio * num_iterations}

TestIterations == Iterations \ TrainIterations

ExpectedIterations == IF datatype = "train" THEN TrainIterations ELSE TestIterations

\* the (iteration, vehicle count) pairs of the files read so far
FilesRead == {<<files[k].ite, files[k].vehicle>> : k \in DOMAIN files}

LoopDone == pc \in {"concat", "balance", "ValueError"}

\* C22: a train run reads the leading iterations below
\* train_data_ratio * num_iterations / 100 and a test run reads all the other
\* iterations, so that the two sets are disjoint and together are all the
\* iterations; no file is read twice, and a run that completes the loop has
\* read the file of every vehicle count of each of its iterations
C22_TrainTestPartition ==
    /\ TrainIterations = 0..(Cardinality(TrainIterations) - 1)
    /\ \A k, l \in DOMAIN files : files[k] = files[l] => k = l
    /\ FilesRead \subseteq
           ExpectedIterations \X VehicleRange(min_vehicle, max_vehicle, vehicle_step_size)
    /\ LoopDone =>
           FilesRead = ExpectedIterations \X VehicleRange(min_vehicle, max_vehicle, vehicle_step_size)

\* a test run has completed the loop with a start index that is not a whole
\* number, after reading some iterations and skipping others
C22_Witness ==
    /\ LoopDone
    /\ datatype = "test"
    /\ (train_data_ratio * num_iterations) % 100 # 0
    /\ files # <<>>
    /\ Len(files) < num_iterations * max_vehicle
    /\ max_vehicle > min_vehicle

\* a train run has completed the loop with a whole start index below
\* num_iterations
C22_WitnessTrain ==
    /\ LoopDone
    /\ datatype = "train"
    /\ (train_data_ratio * num_iterations) % 100 = 0
    /\ files # <<>>
    /\ Len(files) < num_iterations * max_vehicle

====
